---- MODULE Spec2Model ----
(***************************************************************************)
(* Model of the table_extraction scripts: src/interactiveupdate.py, the    *)
(* variant with the next-page fallback, and src/interactive.py, the        *)
(* variant without it, run on the same files on a state of its own.        *)
(*                                                                         *)
(* A PDF document is what pdfplumber reports about it: for each page the   *)
(* extracted text (reduced to what the two searches of the code read from  *)
(* it), the word list and the table candidates.  Strings the code inspects *)
(* character by character (table cells, words, paths) are tuples of        *)
(* one-character strings, so that re.match, str.strip, str.lower, the      *)
(* substring test and os.path are computed and not assumed.                *)
(***************************************************************************)
EXTENDS Integers, Sequences, FiniteSets, TLC

(***************************************************************************)
(* Bounds of the model.                                                    *)
(***************************************************************************)
MaxFiles == 2
MaxTables == 2
MaxRows == 3
MaxPages == 2

(***************************************************************************)
(* Python values.                                                          *)
(***************************************************************************)
\* None where the code expects a number (page_num, y_coord).
NoneInt == -1
\* None where the code expects a DataFrame.
NoneDf == [isNone |-> TRUE]
\* None as a table cell (pdfplumber reports an empty cell as None).
NoneCell == <<"<None>">>
\* str(cell)
Str(cell) == IF cell = NoneCell THEN <<"N", "o", "n", "e">> ELSE cell

Digits == {"0", "1", "2", "3", "4", "5", "6", "7", "8", "9"}
Whitespace == {" ", "\n", "\t"}
UpperCase == <<"A", "B", "C", "D", "E", "F", "G", "H", "I", "J", "K", "L", "M",
               "N", "O", "P", "Q", "R", "S", "T", "U", "V", "W", "X", "Y", "Z">>
LowerCase == <<"a", "b", "c", "d", "e", "f", "g", "h", "i", "j", "k", "l", "m",
               "n", "o", "p", "q", "r", "s", "t", "u", "v", "w", "x", "y", "z">>

\* str.lower(), one character
LowerChar(c) ==
    IF \E i \in 1..Len(UpperCase) : UpperCase[i] = c
    THEN LowerCase[CHOOSE i \in 1..Len(UpperCase) : UpperCase[i] = c]
    ELSE c
\* str.lower()
Lower(s) == [i \in 1..Len(s) |-> LowerChar(s[i])]

\* str.strip(): drop the leading and the trailing whitespace
Strip(s) ==
    LET keep == {i \in 1..Len(s) : s[i] \notin Whitespace}
    IN  IF keep = {} THEN <<>>
        ELSE LET lo == CHOOSE i \in keep : \A j \in keep : i <= j
                 hi == CHOOSE i \in keep : \A j \in keep : j <= i
             IN  SubSeq(s, lo, hi)

\* sub in s
Contains(sub, s) ==
    \E i \in 0..(Len(s) - Len(sub)) : SubSeq(s, i + 1, i + Len(sub)) = sub

\* re.match(r'\d{4}-\d{2}', s): anchored at the start of s only
ReMatchYear(s) ==
    /\ Len(s) >= 7
    /\ \A i \in {1, 2, 3, 4, 6, 7} : s[i] \in Digits
    /\ s[5] = "-"

\* the largest index of character c in s, 0 when there is none (str.rfind + 1)
RFind(s, c) ==
    LET at == {i \in 1..Len(s) : s[i] = c}
    IN  IF at = {} THEN 0 ELSE CHOOSE i \in at : \A j \in at : j <= i

\* os.path.basename
Basename(p) == SubSeq(p, RFind(p, "/") + 1, Len(p))

\* os.path.splitext(p)[0], p without a separator: the last dot starts the
\* extension unless only dots precede it
SplitextRoot(p) ==
    LET dot == RFind(p, ".")
    IN  IF dot > 0 /\ \E i \in 1..(dot - 1) : p[i] # "."
        THEN SubSeq(p, 1, dot - 1)
        ELSE p

(***************************************************************************)
(* pandas: the DataFrame built from a list of rows.                        *)
(***************************************************************************)
DataFrame(rows) == [isNone |-> FALSE, rows |-> rows]
\* df.empty: no row, or no column
DfEmpty(df) == Len(df.rows) = 0 \/ Len(df.rows[1]) = 0

(***************************************************************************)
(* pdfplumber: what the code reads from a document.                        *)
(*   doc.openFails   pdfplumber.open raises (unreadable or malformed file) *)
(*   doc.pages       the pages, in order                                   *)
(*   page.textOk     FALSE when extract_text() yields None, on which both  *)
(*                   re.search and the `in` test raise TypeError           *)
(*   page.match      group(1) of re.search(enrollment_pattern, text,       *)
(*                   re.IGNORECASE), <<>> when the pattern does not match  *)
(*   page.basic      "BASIC INFORMATION" in text                           *)
(*   page.words      extract_words(): [text, bottom]                       *)
(*   page.tables     extract_tables(), in extraction order: [top, grid];   *)
(*                   top is where the table starts on the page             *)
(***************************************************************************)
NoMatch == <<>>

\* page.extract_tables()
extract_tables(page) == [i \in 1..Len(page.tables) |-> page.tables[i].grid]

\* page.crop((0, y_coord, page.width, page.height)).extract_tables(): the
\* candidates that start at or below the cut, in the same order
RECURSIVE crop_tables(_, _, _)
crop_tables(tables, i, y_coord) ==
    IF i > Len(tables) THEN <<>>
    ELSE IF tables[i].top >= y_coord
         THEN <<tables[i].grid>> \o crop_tables(tables, i + 1, y_coord)
         ELSE crop_tables(tables, i + 1, y_coord)

crop_extract_tables(page, y_coord) == crop_tables(page.tables, 1, y_coord)

(***************************************************************************)
(* extract_table_from_cropped_area                                         *)
(***************************************************************************)
\* mutant of table_has_correct_structure: five cells or more
table_has_five_or_more(table) ==
    /\ Len(table) >= 2
    /\ Len(table[1]) >= 5
    /\ \A c \in 1..Len(table[1]) : ReMatchYear(Str(table[1][c]))

\* the test on one candidate: at least two rows, five cells in the first
\* row, each of them matched by re.match(r'\d{4}-\d{2}', str(cell))
table_has_correct_structure(table) ==
    /\ Len(table) >= 2
    /\ Len(table[1]) = 5
    /\ \A c \in 1..Len(table[1]) : ReMatchYear(Str(table[1][c]))

\* table[:2]
first_two_rows(table) == SubSeq(table, 1, IF Len(table) < 2 THEN Len(table) ELSE 2)

\* mutant of first_valid_table: the loop returns on its first candidate,
\* valid or not
first_table_only(tables, i) ==
    IF i > Len(tables) THEN NoneDf
    ELSE IF table_has_correct_structure(tables[i])
         THEN DataFrame(first_two_rows(tables[i]))
         ELSE NoneDf

\* `for table in tables`, from candidate i on: the first candidate that
\* passes the test ends the loop
RECURSIVE first_valid_table(_, _)
first_valid_table(tables, i) ==
    IF i > Len(tables) THEN NoneDf
    ELSE IF table_has_correct_structure(tables[i])
         THEN DataFrame(first_two_rows(tables[i]))
         ELSE first_valid_table(tables, i + 1)

\* the candidates the call looks at: none when the file cannot be opened or
\* the page does not exist
candidate_tables(doc, page_num, y_coord, check_next_page) ==
    IF doc.openFails \/ page_num >= Len(doc.pages) THEN <<>>
    ELSE IF check_next_page
         THEN extract_tables(doc.pages[page_num + 1])
         ELSE crop_extract_tables(doc.pages[page_num + 1], y_coord)

extract_table_from_cropped_area(doc, page_num, y_coord, check_next_page) ==
    IF doc.openFails THEN NoneDf                     \* except: return None
    ELSE IF page_num >= Len(doc.pages) THEN NoneDf   \* page out of range
    ELSE first_valid_table(
             candidate_tables(doc, page_num, y_coord, check_next_page), 1)

(***************************************************************************)
(* find_text_and_crop                                                      *)
(***************************************************************************)
NotFound == [page_num |-> NoneInt, y_coord |-> NoneInt, found |-> FALSE]

\* `for word in words`: the first word whose text contains group(1); 0 when
\* no word does
first_word_with(words, group1) ==
    LET at == {i \in 1..Len(words) : Contains(group1, words[i].text)}
    IN  IF at = {} THEN 0 ELSE CHOOSE i \in at : \A j \in at : i <= j

\* mutant of find_from_page: the loop over the pages ends at the first page
\* whose text matches, whether or not one of its words holds the number
find_first_match_only(pages, p) ==
    LET stop == {q \in p..Len(pages) : ~pages[q].textOk \/ pages[q].match # NoMatch}
    IN  IF stop = {} THEN NotFound
        ELSE LET q == CHOOSE q \in stop : \A r \in stop : q <= r
             IN  IF pages[q].textOk /\ first_word_with(pages[q].words, pages[q].match) # 0
                 THEN [page_num |-> q - 1,
                       y_coord  |-> pages[q].words[
                                       first_word_with(pages[q].words, pages[q].match)].bottom,
                       found    |-> TRUE]
                 ELSE NotFound

\* `for page_num, page in enumerate(pdf.pages)`, from page p (1-based) on
RECURSIVE find_from_page(_, _)
find_from_page(pages, p) ==
    IF p > Len(pages) THEN NotFound
    ELSE IF ~pages[p].textOk THEN NotFound       \* TypeError, caught
    ELSE IF pages[p].match # NoMatch
              /\ first_word_with(pages[p].words, pages[p].match) # 0
         THEN [page_num |-> p - 1,
               y_coord  |-> pages[p].words[
                               first_word_with(pages[p].words, pages[p].match)].bottom,
               found    |-> TRUE]
         ELSE find_from_page(pages, p + 1)

\* mutant of find_text_and_crop: page 0 and position 0 stand for "not found"
find_text_default_zero(doc) ==
    IF doc.openFails \/ find_from_page(doc.pages, 1) = NotFound
    THEN [page_num |-> 0, y_coord |-> 0, found |-> FALSE]
    ELSE find_from_page(doc.pages, 1)

find_text_and_crop(doc) ==
    IF doc.openFails THEN NotFound ELSE find_from_page(doc.pages, 1)

(***************************************************************************)
(* get_college_name                                                        *)
(***************************************************************************)
NoneName == <<"<None>">>
name_of_the_college == <<"n", "a", "m", "e", " ", "o", "f", " ", "t", "h", "e", " ",
                         "c", "o", "l", "l", "e", "g", "e">>

\* str(cell).strip() if cell is not None else ""
str_cell(cell) == IF cell = NoneCell THEN <<>> ELSE Strip(Str(cell))
str_table(table) ==
    [r \in 1..Len(table) |-> [c \in 1..Len(table[r]) |-> str_cell(table[r][c])]]

\* mutant of is_name_row: the label is compared as written
is_name_row_case_sensitive(st, i) ==
    /\ i - 1 > 0
    /\ Len(st[i]) > 1
    /\ Strip(st[i][2]) # <<>>
    /\ Strip(st[i][2]) # name_of_the_college

\* the test on row i (1-based here; the code's i is i - 1)
is_name_row(st, i) ==
    /\ i - 1 > 0
    /\ Len(st[i]) > 1
    /\ Strip(st[i][2]) # <<>>
    /\ Lower(Strip(st[i][2])) # name_of_the_college

RECURSIVE name_in_rows(_, _)
name_in_rows(st, i) ==
    IF i > Len(st) THEN NoneName
    ELSE IF is_name_row(st, i) THEN Strip(st[i][2])
    ELSE name_in_rows(st, i + 1)

RECURSIVE name_in_tables(_, _)
name_in_tables(tables, t) ==
    IF t > Len(tables) THEN NoneName
    ELSE IF name_in_rows(str_table(tables[t]), 1) # NoneName
         THEN name_in_rows(str_table(tables[t]), 1)
         ELSE name_in_tables(tables, t + 1)

RECURSIVE name_in_pages(_, _)
name_in_pages(pages, p) ==
    IF p > Len(pages) THEN NoneName
    ELSE IF ~pages[p].textOk THEN NoneName       \* TypeError, caught
    ELSE IF pages[p].basic
              /\ name_in_tables(extract_tables(pages[p]), 1) # NoneName
         THEN name_in_tables(extract_tables(pages[p]), 1)
         ELSE name_in_pages(pages, p + 1)

get_college_name(doc) ==
    IF doc.openFails THEN NoneName ELSE name_in_pages(doc.pages, 1)

\* get_college_name(pdf_path) or os.path.splitext(os.path.basename(pdf_path))[0]
college_name_or_file_name(path, doc) ==
    IF get_college_name(doc) # NoneName /\ get_college_name(doc) # <<>>
    THEN get_college_name(doc)
    ELSE SplitextRoot(Basename(path))

(***************************************************************************)
(* State.                                                                  *)
(***************************************************************************)
VARIABLES
    files,        \* get_pdf_files(): the discovered files, [path, doc], in order
    pc,           \* where process_folder is: "find", "crop", "next", "record",
                  \* "save", "done"
    idx,          \* the file the loop of process_folder is at, then the item
                  \* the loop of save_to_excel is at (1-based)
    loc,          \* extract_enrollment_table's page_num, y_coord, section_found, df
    results,      \* the dict `results`, in insertion order: [path, df, section_found]
    calls,        \* history: the calls made on documents and what they returned,
                  \* [file, fn, page_num, next, y_coord, ok]
    raised,       \* history: the files whose processing ended in the except clause
    current_col,  \* save_to_excel's current_col
    sheet,        \* the worksheet: cells written, merged ranges, column widths,
                  \* each tagged with the item (rec) that wrote it
    interactive   \* the run of interactive.py on the same files: its pc, idx,
                  \* loc, results, raised, current_col and sheet

vars == <<files, pc, idx, loc, results, calls, raised, current_col, sheet, interactive>>

NearBottom == 700
default_years ==
    << <<"2", "0", "2", "0", "-", "2", "1">>, <<"2", "0", "1", "9", "-", "2", "0">>,
       <<"2", "0", "1", "8", "-", "1", "9">>, <<"2", "0", "1", "7", "-", "1", "8">>,
       <<"2", "0", "1", "6", "-", "1", "7">> >>
\* the marker of a record whose heading was not found
MarkerX == <<"x">>
\* a cell that was created and given no value
Blank == NoneCell

NoLoc == [page_num |-> NoneInt, y_coord |-> NoneInt, section_found |-> FALSE,
          df |-> NoneDf]

CurDoc == files[idx].doc
\* the document a path names
DocAt(path) == (CHOOSE i \in 1..Len(files) : files[i].path = path)
DocOf(path) == files[DocAt(path)].doc

\* fn "find": page_num and y_coord returned, ok = found; fn "extract": page_num,
\* y_coord and check_next_page passed, ok = a table was returned; fn "name"
Call(file, fn, page_num, next, y_coord, ok) ==
    [file |-> file, fn |-> fn, page_num |-> page_num, next |-> next,
     y_coord |-> y_coord, ok |-> ok]

\* mutants of check_next_page_needed: the threshold itself excluded; the
\* test on df forgotten
check_next_page_above(df, y_coord) == df = NoneDf /\ y_coord > NearBottom
check_next_page_always(df, y_coord) == y_coord >= NearBottom

\* `if df is None and y_coord >= 700`
check_next_page_needed(df, y_coord) == df = NoneDf /\ y_coord >= NearBottom

\* mutant of next_page_num: the fallback reads the heading's page again
next_page_same(page_num) == page_num

\* the page the fallback reads: page_num + 1
next_page_num(page_num) == page_num + 1

(***************************************************************************)
(* extract_enrollment_table, in the three steps that open the document.    *)
(***************************************************************************)
\* page_num, y_coord, section_found = find_text_and_crop(...); not found:
\* return None, False
FindHeading ==
    /\ pc = "find"
    /\ LET r == find_text_and_crop(CurDoc)
       IN  IF r.page_num # NoneInt /\ r.y_coord # NoneInt
           THEN /\ loc' = [page_num |-> r.page_num, y_coord |-> r.y_coord,
                           section_found |-> r.found, df |-> NoneDf]
                /\ pc' = "crop"
           ELSE /\ loc' = [page_num |-> r.page_num, y_coord |-> r.y_coord,
                           section_found |-> FALSE, df |-> NoneDf]
                /\ pc' = "record"
    /\ calls' = Append(calls,
                  LET r == find_text_and_crop(CurDoc)
                  IN  Call(idx, "find", r.page_num, FALSE, r.y_coord, r.found))
    /\ UNCHANGED <<interactive, files, idx, results, raised, current_col, sheet>>

\* df, _ = extract_table_from_cropped_area(pdf_path, page_num, y_coord)
ExtractCurrentPage ==
    /\ pc = "crop"
    /\ LET df == extract_table_from_cropped_area(CurDoc, loc.page_num, loc.y_coord, FALSE)
       IN  /\ loc' = [loc EXCEPT !.df = df]
           /\ pc' = IF check_next_page_needed(df, loc.y_coord) THEN "next" ELSE "record"
           /\ calls' = Append(calls, Call(idx, "extract", loc.page_num, FALSE,
                                          loc.y_coord, df # NoneDf))
    /\ UNCHANGED <<interactive, files, idx, results, raised, current_col, sheet>>

\* df, _ = extract_table_from_cropped_area(pdf_path, page_num + 1, check_next_page=True)
ExtractNextPage ==
    /\ pc = "next"
    /\ LET df == extract_table_from_cropped_area(CurDoc, next_page_num(loc.page_num),
                                                 NoneInt, TRUE)
       IN  /\ loc' = [loc EXCEPT !.df = df]
           /\ calls' = Append(calls, Call(idx, "extract", next_page_num(loc.page_num),
                                          TRUE, NoneInt, df # NoneDf))
    /\ pc' = "record"
    /\ UNCHANGED <<interactive, files, idx, results, raised, current_col, sheet>>

(***************************************************************************)
(* process_folder: the rest of one iteration of `for pdf_path in pdf_files`*)
(***************************************************************************)
\* mutant of DictSet: a list of pairs, every assignment appended
DictAppend(d, path, df, section_found) ==
    Append(d, [path |-> path, df |-> df, section_found |-> section_found])

\* results[key] = value: a new key is appended, an old one keeps its place
DictSet(d, path, df, section_found) ==
    IF \E i \in 1..Len(d) : d[i].path = path
    THEN [i \in 1..Len(d) |->
            IF d[i].path = path
            THEN [path |-> path, df |-> df, section_found |-> section_found]
            ELSE d[i]]
    ELSE Append(d, [path |-> path, df |-> df, section_found |-> section_found])

NextFile ==
    IF idx < Len(files)
    THEN /\ idx' = idx + 1
         /\ pc' = "find"
    ELSE /\ idx' = 1            \* save_to_excel(results, excel_path)
         /\ pc' = "save"

\* mutant of RecordResult: the college name is read as soon as the record
\* is stored, while the loop over the files is still running
RecordResultWithName ==
    /\ pc = "record"
    /\ results' = DictSet(results, files[idx].path, loc.df, loc.section_found)
    /\ calls' = Append(calls, Call(idx, "name", NoneInt, FALSE, NoneInt,
                                   get_college_name(CurDoc) # NoneName))
    /\ NextFile
    /\ loc' = NoLoc
    /\ UNCHANGED <<interactive, files, raised, current_col, sheet>>

\* results[pdf_path] = (df, section_found), and the report is printed
RecordResult ==
    /\ pc = "record"
    /\ results' = DictSet(results, files[idx].path, loc.df, loc.section_found)
    /\ NextFile
    /\ loc' = NoLoc
    /\ UNCHANGED <<interactive, files, calls, raised, current_col, sheet>>

\* the report cannot be printed (the console cannot encode the mark or the
\* file name): except Exception: results[pdf_path] = (None, False)
RecordError ==
    /\ pc = "record"
    /\ results' = DictSet(DictSet(results, files[idx].path, loc.df, loc.section_found),
                          files[idx].path, NoneDf, FALSE)
    /\ raised' = raised \cup {idx}
    /\ NextFile
    /\ loc' = NoLoc
    /\ UNCHANGED <<interactive, files, calls, current_col, sheet>>

(***************************************************************************)
(* save_to_excel: one iteration of `for pdf_path, (df, section_found) in   *)
(* dataframes.items()`                                                     *)
(***************************************************************************)
\* mutant of placeholder_marker: 'x' whatever was found
placeholder_always_x(section_found) == MarkerX

\* the data row of a record without a table: 'x' unless the section was found
placeholder_marker(section_found) == IF ~section_found THEN MarkerX ELSE Blank

\* mutant of advance_col: the next block starts one column early
advance_col_by_four(col) == col + 4

\* current_col += 5
advance_col(col) == col + 5

CellAt(row, col, value) == [rec |-> idx, row |-> row, col |-> col, value |-> value]

\* the cells one item writes, from column col on
item_cells(item, name, col) ==
    {CellAt(1, col, name)}
    \cup
    (IF item.df # NoneDf /\ ~DfEmpty(item.df)
     THEN {CellAt(2, col + i - 1, item.df.rows[1][i]) : i \in 1..Len(item.df.rows[1])}
          \cup
          (IF Len(item.df.rows) > 1
           THEN {CellAt(3, col + i - 1, item.df.rows[2][i]) :
                    i \in 1..Len(item.df.rows[2])}
           ELSE {})
     ELSE {CellAt(2, col + i - 1, default_years[i]) : i \in 1..Len(default_years)}
          \cup
          {CellAt(3, col + i - 1, placeholder_marker(item.section_found)) :
              i \in 1..Len(default_years)})

SaveRecord ==
    /\ pc = "save"
    /\ idx <= Len(results)
    /\ LET item == results[idx]
           name == college_name_or_file_name(item.path, DocOf(item.path))
       IN  sheet' = [cells  |-> sheet.cells \cup item_cells(item, name, current_col),
                     merges |-> sheet.merges \cup
                                  {[rec |-> idx, row |-> 1, start_column |-> current_col,
                                    end_column |-> current_col + 4]},
                     widths |-> sheet.widths \cup
                                  {[rec |-> idx, col |-> current_col + i, width |-> 15] :
                                      i \in 0..4}]
    /\ calls' = Append(calls,
                  Call(DocAt(results[idx].path), "name", NoneInt, FALSE, NoneInt,
                       get_college_name(DocOf(results[idx].path)) # NoneName))
    /\ current_col' = advance_col(current_col)
    /\ IF idx < Len(results)
       THEN /\ idx' = idx + 1
            /\ pc' = "save"
       ELSE /\ idx' = idx
            /\ pc' = "done"
    /\ UNCHANGED <<interactive, files, loc, results, raised>>

(***************************************************************************)
(* interactive.py, the other script: the same steps on its own state.      *)
(***************************************************************************)
\* find_text_and_crop of interactive.py: the same loop, a pair returned
interactive_find_text_and_crop(doc) ==
    LET r == IF doc.openFails THEN NotFound ELSE find_from_page(doc.pages, 1)
    IN  [page_num |-> r.page_num, y_coord |-> r.y_coord]

\* mutant of interactive_extract_table_from_cropped_area: the page is not
\* cropped
interactive_extract_uncropped(doc, page_num, y_coord) ==
    IF doc.openFails \/ page_num >= Len(doc.pages) THEN NoneDf
    ELSE first_valid_table(extract_tables(doc.pages[page_num + 1]), 1)

\* extract_table_from_cropped_area of interactive.py: pdf.pages[page_num]
\* (IndexError caught), the crop, the first table with correct structure
interactive_extract_table_from_cropped_area(doc, page_num, y_coord) ==
    IF doc.openFails \/ page_num >= Len(doc.pages) THEN NoneDf
    ELSE first_valid_table(crop_extract_tables(doc.pages[page_num + 1], y_coord), 1)

interactive_default_years ==
    << <<"x", "-", "x">>, <<"x", "-", "x">>, <<"x", "-", "x">>, <<"x", "-", "x">>,
       <<"x", "-", "x">> >>

\* the cells one item writes, from column col on: the data row of an item
\* without a table is 'x'
interactive_item_cells(rec, item, name, col) ==
    LET cell(row, c, value) == [rec |-> rec, row |-> row, col |-> c, value |-> value]
    IN  {cell(1, col, name)}
        \cup
        (IF item.df # NoneDf /\ ~DfEmpty(item.df)
         THEN {cell(2, col + i - 1, item.df.rows[1][i]) : i \in 1..Len(item.df.rows[1])}
              \cup
              (IF Len(item.df.rows) > 1
               THEN {cell(3, col + i - 1, item.df.rows[2][i]) :
                        i \in 1..Len(item.df.rows[2])}
               ELSE {})
         ELSE {cell(2, col + i - 1, interactive_default_years[i]) :
                  i \in 1..Len(interactive_default_years)}
              \cup
              {cell(3, col + i - 1, MarkerX) : i \in 1..Len(interactive_default_years)})

interactive_no_loc == [page_num |-> NoneInt, y_coord |-> NoneInt, df |-> NoneDf]

\* the state process_folder of interactive.py starts from
interactive_start(fs) ==
    [pc |-> IF fs = <<>> THEN "done" ELSE "find",
     idx |-> 1,
     loc |-> interactive_no_loc,
     results |-> <<>>,
     raised |-> {},
     current_col |-> 1,
     sheet |-> [cells |-> {}, merges |-> {}, widths |-> {}]]

\* the end of one iteration of `for pdf_path in pdf_files`
interactive_next_file(v) ==
    IF v.idx < Len(files)
    THEN [v EXCEPT !.idx = v.idx + 1, !.pc = "find", !.loc = interactive_no_loc]
    ELSE [v EXCEPT !.idx = 1, !.pc = "save", !.loc = interactive_no_loc]

\* page_num, y_coord = find_text_and_crop(...); not found: return None, None
InteractiveFindHeading ==
    /\ interactive.pc = "find"
    /\ LET r == interactive_find_text_and_crop(files[interactive.idx].doc)
       IN  interactive' =
             [interactive EXCEPT
                !.loc = [page_num |-> r.page_num, y_coord |-> r.y_coord, df |-> NoneDf],
                !.pc = IF r.page_num # NoneInt /\ r.y_coord # NoneInt
                       THEN "crop" ELSE "record"]
    /\ UNCHANGED <<files, pc, idx, loc, results, calls, raised, current_col, sheet>>

\* return extract_table_from_cropped_area(pdf_path, page_num, y_coord)
InteractiveExtract ==
    /\ interactive.pc = "crop"
    /\ interactive' =
          [interactive EXCEPT
             !.loc.df = interactive_extract_table_from_cropped_area(
                            files[interactive.idx].doc, interactive.loc.page_num,
                            interactive.loc.y_coord),
             !.pc = "record"]
    /\ UNCHANGED <<files, pc, idx, loc, results, calls, raised, current_col, sheet>>

\* results[pdf_path] = (df, section_number), section_number being None
InteractiveRecordResult ==
    /\ interactive.pc = "record"
    /\ interactive' =
          interactive_next_file(
             [interactive EXCEPT
                !.results = DictSet(interactive.results, files[interactive.idx].path,
                                    interactive.loc.df, NoneName)])
    /\ UNCHANGED <<files, pc, idx, loc, results, calls, raised, current_col, sheet>>

\* the report cannot be printed: except Exception: results[pdf_path] = (None, None)
InteractiveRecordError ==
    /\ interactive.pc = "record"
    /\ interactive' =
          interactive_next_file(
             [interactive EXCEPT
                !.results = DictSet(DictSet(interactive.results,
                                            files[interactive.idx].path,
                                            interactive.loc.df, NoneName),
                                    files[interactive.idx].path, NoneDf, NoneName),
                !.raised = interactive.raised \cup {interactive.idx}])
    /\ UNCHANGED <<files, pc, idx, loc, results, calls, raised, current_col, sheet>>

\* save_to_excel of interactive.py: one iteration of its loop
InteractiveSaveRecord ==
    /\ interactive.pc = "save"
    /\ interactive.idx <= Len(interactive.results)
    /\ LET v    == interactive
           item == v.results[v.idx]
           name == college_name_or_file_name(item.path, DocOf(item.path))
       IN  interactive' =
             [v EXCEPT
                !.sheet =
                   [cells  |-> v.sheet.cells
                                  \cup interactive_item_cells(v.idx, item, name, v.current_col),
                    merges |-> v.sheet.merges \cup
                                  {[rec |-> v.idx, row |-> 1, start_column |-> v.current_col,
                                    end_column |-> v.current_col + 4]},
                    widths |-> v.sheet.widths \cup
                                  {[rec |-> v.idx, col |-> v.current_col + i, width |-> 15] :
                                      i \in 0..4}],
                !.current_col = v.current_col + 5,
                !.idx = IF v.idx < Len(v.results) THEN v.idx + 1 ELSE v.idx,
                !.pc = IF v.idx < Len(v.results) THEN "save" ELSE "done"]
    /\ UNCHANGED <<files, pc, idx, loc, results, calls, raised, current_col, sheet>>

Next ==
    \/ FindHeading
    \/ ExtractCurrentPage
    \/ ExtractNextPage
    \/ RecordResult
    \/ RecordError
    \/ SaveRecord

\* both scripts, each run once on the same folder, in any interleaving
NextVariants ==
    \/ Next
    \/ InteractiveFindHeading
    \/ InteractiveExtract
    \/ InteractiveRecordResult
    \/ InteractiveRecordError
    \/ InteractiveSaveRecord

\* the state process_folder starts from, given the discovered files
Start(fs) ==
    /\ files = fs
    /\ pc = IF fs = <<>> THEN "done" ELSE "find"
    /\ idx = 1
    /\ loc = NoLoc
    /\ results = <<>>
    /\ calls = <<>>
    /\ raised = {}
    /\ current_col = 1
    /\ sheet = [cells |-> {}, merges |-> {}, widths |-> {}]
    /\ interactive = interactive_start(fs)

(***************************************************************************)
(* Inputs: the documents the runs are checked on.                          *)
(***************************************************************************)
SeqsUpTo(S, n) == UNION {[1..k -> S] : k \in 0..n}

Word(text, bottom) == [text |-> text, bottom |-> bottom]
Table(top, grid) == [top |-> top, grid |-> grid]
Page(textOk, match, basic, words, tables) ==
    [textOk |-> textOk, match |-> match, basic |-> basic, words |-> words,
     tables |-> tables]
Doc(openFails, pages) == [openFails |-> openFails, pages |-> pages]
File(path, doc) == [path |-> path, doc |-> doc]

\* "3.7.1", the section number the pattern captures
Sec == <<"3", ".", "7", ".", "1">>
\* where a heading may end on a page, and where a table may start
YCoords == {650, 699, 700, 720}
Tops == {300, 760}

PathPool ==
    << <<"i", "n", "/", "a", ".", "p", "d", "f">>,
       <<"i", "n", "/", "s", ".", "t", "/", "b", ".", "c", ".", "P", "D", "F">>,
       <<"c", ".", "P", "d", "f">>,
       <<"i", "n", "/", "e", ".", ".", "p", "d", "f">> >>

\* ---- year tables ----
\* cells that may stand in a header row in place of a year of default_years:
\* "2020-2021", None, " 2020-21", "Year", "2020-2", "2022-23"
AltCells ==
    { <<"2", "0", "2", "0", "-", "2", "0", "2", "1">>,
      NoneCell,
      <<" ", "2", "0", "2", "0", "-", "2", "1">>,
      <<"Y", "e", "a", "r">>,
      <<"2", "0", "2", "0", "-", "2">>,
      <<"2", "0", "2", "2", "-", "2", "3">> }
Header4 == SubSeq(default_years, 1, 4)
Header6 == Append(default_years, <<"2", "0", "1", "5", "-", "1", "6">>)
Headers ==
    {default_years, Header4, Header6}
    \cup {[default_years EXCEPT ![p] = c] : p \in {1, 3, 5}, c \in AltCells}

RowDigit == <<"1", "2", "3", "4", "5", "6", "7", "8", "9">>
\* a rectangular grid of n rows under the header; tag tells the tables apart
Grid(header, n, tag) ==
    [r \in 1..n |->
        IF r = 1 THEN header ELSE [c \in 1..Len(header) |-> <<tag, RowDigit[r]>>]]

RichGrids == {Grid(h, n, "A") : h \in Headers, n \in 0..MaxRows}
GridA == Grid(default_years, MaxRows, "A")
GridB == Grid(default_years, 2, "B")
GridC == Grid([default_years EXCEPT ![3] = <<"2", "0", "2", "0", "-", "2", "0", "2", "1">>],
              2, "C")
GridBad == Grid(Header4, 2, "D")
GridOneRow == Grid(default_years, 1, "E")
SmallGrids == {GridA, GridB, GridC, GridBad, GridOneRow}

TableLists ==
    {<<Table(top, g)>> : top \in Tops, g \in RichGrids}
    \cup SeqsUpTo({Table(top, g) : top \in Tops, g \in SmallGrids}, MaxTables)

\* ---- pages ----
OtherWord == Word(<<"T", "o", "t", "a", "l">>, 640)
\* a page whose text matches, the section number ending at y
HeadingPage(y, tables) ==
    Page(TRUE, Sec, FALSE, <<OtherWord, Word(Sec, y)>>, tables)
\* the same, an earlier word ("13.7.1", at 100) containing the section number
EarlyWordPage(y, tables) ==
    Page(TRUE, Sec, FALSE,
         <<Word(<<"1", "3", ".", "7", ".", "1">>, 100), Word(Sec, y)>>, tables)
\* a page whose text matches and none of whose words contains the number
\* ("3.7." and "1" are two words)
SplitWordPage(y, tables) ==
    Page(TRUE, Sec, FALSE,
         <<Word(<<"3", ".", "7", ".">>, y), Word(<<"1">>, y)>>, tables)
PlainPage(tables) == Page(TRUE, NoMatch, FALSE, <<OtherWord>>, tables)
NoTextPage(tables) == Page(FALSE, NoMatch, FALSE, <<>>, tables)

PageTables ==
    { <<>>, <<Table(760, GridA)>>, <<Table(300, GridA)>>, <<Table(760, GridBad)>>,
      <<Table(760, GridBad), Table(780, GridB)>> }
PagePool ==
    UNION { {PlainPage(t), NoTextPage(t), SplitWordPage(720, t), EarlyWordPage(720, t)}
            \cup {HeadingPage(y, t) : y \in YCoords} : t \in PageTables }

\* ---- name tables ----
\* cells at index 1: "Name of the College", " NAME OF THE COLLEGE\n", "",
\* " \t", None, " Ab ", "Cd"
NameCells ==
    { <<"N", "a", "m", "e", " ", "o", "f", " ", "t", "h", "e", " ",
        "C", "o", "l", "l", "e", "g", "e">>,
      <<" ", "N", "A", "M", "E", " ", "O", "F", " ", "T", "H", "E", " ",
        "C", "O", "L", "L", "E", "G", "E", "\n">>,
      <<>>,
      <<" ", "\t">>,
      NoneCell,
      <<" ", "A", "b", " ">>,
      <<"C", "d">> }
\* row 0 holds a name as well ("R0"), which the code is to skip
NameTable(cells) ==
    << <<<<"k">>, <<"R", "0">>>> >> \o [i \in 1..Len(cells) |-> <<<<"k">>, cells[i]>>]
OneColumnTable == << <<<<"k">>>>, <<<<"Z", "z">>>> >>
RichNameTables ==
    {NameTable(cells) : cells \in SeqsUpTo(NameCells, MaxRows - 1)} \cup {OneColumnTable}
SmallNameTables ==
    { NameTable(<< <<"N", "a", "m", "e", " ", "o", "f", " ", "t", "h", "e", " ",
                     "C", "o", "l", "l", "e", "g", "e">>, <<" ", "A", "b", " ">> >>),
      NameTable(<< <<"C", "d">> >>),
      NameTable(<< <<>> >>) }
NamePage(basic, grids) ==
    Page(TRUE, NoMatch, basic, <<OtherWord>>, [i \in 1..Len(grids) |-> Table(300, grids[i])])
SmallNamePages ==
    {NamePage(b, gs) : b \in BOOLEAN, gs \in SeqsUpTo(SmallNameTables, MaxTables)}
    \cup {NoTextPage(<<>>)}

(***************************************************************************)
(* Specifications.  They share the program (Next) and differ in the        *)
(* documents they start from.                                              *)
(***************************************************************************)
\* Spec: a folder of up to MaxFiles documents, each one of the cases the
\* batch tells apart
SampleDocs ==
    { Doc(FALSE, <<NamePage(TRUE, <<NameTable(<< <<" ", "A", "b", " ">> >>)>>),
                   HeadingPage(650, <<Table(760, GridA)>>)>>),
      Doc(FALSE, <<HeadingPage(720, <<Table(300, GridB)>>),
                   PlainPage(<<Table(300, GridA)>>)>>),
      Doc(FALSE, <<HeadingPage(720, <<>>)>>),
      Doc(FALSE, <<HeadingPage(650, <<Table(760, GridBad)>>),
                   PlainPage(<<Table(300, GridA)>>)>>),
      Doc(FALSE, <<PlainPage(<<Table(300, GridA)>>),
                   NamePage(TRUE, <<NameTable(<< <<"C", "d">> >>)>>)>>),
      Doc(FALSE, <<HeadingPage(700, <<>>), PlainPage(<<Table(300, GridBad)>>)>>),
      Doc(FALSE, <<NoTextPage(<<>>), HeadingPage(650, <<Table(760, GridA)>>)>>),
      Doc(FALSE, <<HeadingPage(699, <<Table(760, Grid(Header6, 2, "F"))>>)>>),
      Doc(TRUE, <<>>) }

Folders ==
    {[i \in 1..Len(ds) |-> File(PathPool[i], ds[i])] : ds \in SeqsUpTo(SampleDocs, MaxFiles)}

Init == \E fs \in Folders : Start(fs)
Spec == Init /\ [][Next]_vars

\* SpecDoc: one document, of up to MaxPages pages of any kind
DocPool == {Doc(FALSE, ps) : ps \in SeqsUpTo(PagePool, MaxPages)} \cup {Doc(TRUE, <<>>)}
InitDoc == \E d \in DocPool : Start(<<File(PathPool[1], d)>>)
SpecDoc == InitDoc /\ [][Next]_vars

\* SpecTables: one document with a heading, and any list of table candidates
\* below the heading, above it, or on the page that follows
TableDocs ==
    {Doc(FALSE, <<HeadingPage(y, ts)>>) : y \in {650, 720}, ts \in TableLists}
    \cup {Doc(FALSE, <<HeadingPage(720, <<>>), PlainPage(ts)>>) : ts \in TableLists}
InitTables == \E d \in TableDocs : Start(<<File(PathPool[1], d)>>)
SpecTables == InitTables /\ [][Next]_vars

\* SpecName: one document, with any BASIC INFORMATION table, under any path
SecondPages ==
    { NamePage(TRUE, <<NameTable(<< <<"C", "d">> >>)>>),
      NamePage(FALSE, <<NameTable(<< <<"C", "d">> >>)>>),
      NamePage(TRUE, <<NameTable(<< <<>> >>)>>),
      NoTextPage(<<>>) }
NamePageLists ==
    {<<NamePage(TRUE, <<t>>)>> : t \in RichNameTables}
    \cup {<<p>> : p \in SmallNamePages}
    \cup {<<p, q>> : p \in SmallNamePages, q \in SecondPages}
NameDocs ==
    {Doc(FALSE, ps) : ps \in NamePageLists}
    \cup {Doc(FALSE, <<HeadingPage(720, <<>>)>> \o ps) : ps \in NamePageLists}
    \cup {Doc(TRUE, <<>>)}
\* every document under the first path, the documents of SecondPages and the
\* unreadable one under every path
InitName ==
    \/ \E d \in NameDocs : Start(<<File(PathPool[1], d)>>)
    \/ \E d \in {Doc(FALSE, <<p>>) : p \in SecondPages} \cup {Doc(TRUE, <<>>)} :
          \E i \in 1..Len(PathPool) : Start(<<File(PathPool[i], d)>>)
SpecName == InitName /\ [][Next]_vars

\* SpecVariants: both scripts on a folder of up to MaxFiles documents: a
\* table below the heading and another above it, no heading, a heading above
\* 700 without a valid table, a heading at 720 whose table is on the next
\* page
VariantDocs ==
    { Doc(FALSE, <<NamePage(TRUE, <<NameTable(<< <<" ", "A", "b", " ">> >>)>>),
                   HeadingPage(650, <<Table(300, GridB), Table(760, GridA)>>)>>),
      Doc(FALSE, <<PlainPage(<<Table(300, GridA)>>)>>),
      Doc(FALSE, <<HeadingPage(699, <<Table(760, GridBad)>>),
                   PlainPage(<<Table(300, GridA)>>)>>),
      Doc(FALSE, <<HeadingPage(720, <<>>), PlainPage(<<Table(300, GridA)>>)>>) }
VariantFolders ==
    {[i \in 1..Len(ds) |-> File(PathPool[i], ds[i])] : ds \in SeqsUpTo(VariantDocs, MaxFiles)}
InitVariants == \E fs \in VariantFolders : Start(fs)
SpecVariants == InitVariants /\ [][NextVariants]_vars

(***************************************************************************)
(* Properties.                                                             *)
(***************************************************************************)
\* ---- reading the history and the documents ----
CallsOf(f, fn) == SelectSeq(calls, LAMBDA c : c.file = f /\ c.fn = fn)
LastCall == calls[Len(calls)]
\* extract_enrollment_table has returned for file idx: loc holds what it returns
Returned == pc = "record"
\* file f has its record, written by the try block and not by the except clause
Recorded(f) == f \in 1..Len(results) /\ (pc \in {"save", "done"} \/ f < idx)
PageCount(f) == Len(files[f].doc.pages)

\* a cell is exactly a year range "YYYY-YY"
YearString(s) ==
    /\ s # NoneCell
    /\ Len(s) = 7
    /\ \A i \in {1, 2, 3, 4, 6, 7} : s[i] \in Digits
    /\ s[5] = "-"
\* a cell begins with a year range
BeginsWithYear(s) == s # NoneCell /\ Len(s) >= 7 /\ YearString(SubSeq(s, 1, 7))
\* the test a candidate passes: two rows or more, five cells in the first
\* row, each beginning with a year range
Accepted(t) ==
    Len(t) >= 2 /\ Len(t[1]) = 5 /\ \A c \in 1..5 : BeginsWithYear(t[1][c])
\* the same with each cell exactly a year range
StrictlyValid(t) ==
    Len(t) >= 2 /\ Len(t[1]) = 5 /\ \A c \in 1..5 : YearString(t[1][c])

\* the grids at the indices `keep` of a page's tables, in order
GridsAt(ts, keep) ==
    [n \in 1..Cardinality(keep) |->
        ts[CHOOSE i \in keep : Cardinality({j \in keep : j < i}) = n - 1].grid]
\* the candidates in the region an extract call c looks at: the page below
\* the cut, or the whole page
RegionOf(c) ==
    IF c.page_num >= PageCount(c.file) THEN <<>>
    ELSE LET ts == files[c.file].doc.pages[c.page_num + 1].tables
         IN  GridsAt(ts, {i \in 1..Len(ts) : c.next \/ ts[i].top >= c.y_coord})
AcceptedIn(cands) == {i \in 1..Len(cands) : Accepted(cands[i])}
FirstAccepted(cands) ==
    cands[CHOOSE i \in AcceptedIn(cands) : \A j \in AcceptedIn(cands) : i <= j]
TwoRowsOf(t) ==
    [isNone |-> FALSE, rows |-> [r \in 1..(IF Len(t) < 2 THEN Len(t) ELSE 2) |-> t[r]]]

\* the heading of file f was located at or beyond 700 and the extraction
\* below it on its page returned no table
NearBottomNoTable(f) ==
    /\ CallsOf(f, "find") # <<>>
    /\ CallsOf(f, "find")[1].ok
    /\ CallsOf(f, "find")[1].y_coord >= 700
    /\ CallsOf(f, "extract") # <<>>
    /\ ~CallsOf(f, "extract")[1].next
    /\ ~CallsOf(f, "extract")[1].ok
HeadingPageOf(f) == CallsOf(f, "find")[1].page_num

\* C1: when the heading is located at a vertical position >= 700 on page k
\* and the extraction below it on page k yields no table, then by the time
\* extract_enrollment_table returns it has attempted page k+1, uncropped;
\* when page k+1 does not exist that attempt yields no table and the
\* function returns (no table, heading found).
C1_NextPageAttempted ==
    (Returned /\ NearBottomNoTable(idx)) =>
        LET ex == CallsOf(idx, "extract")
            k  == HeadingPageOf(idx)
        IN  /\ Len(ex) = 2
            /\ ex[2].next
            /\ ex[2].page_num = k + 1
            /\ (k + 1 >= PageCount(idx)) =>
                  (~ex[2].ok /\ loc.df = NoneDf /\ loc.section_found)

\* a heading at 700 or beyond on the last page, nothing below it: the next
\* page was asked for and the function returned (no table, heading found)
C1_Witness ==
    /\ Returned
    /\ NearBottomNoTable(idx)
    /\ HeadingPageOf(idx) + 1 >= PageCount(idx)
    /\ Len(CallsOf(idx, "extract")) = 2
    /\ loc.df = NoneDf
    /\ loc.section_found

\* ---- C2 ----
\* the heading of f is at 700 or beyond, its page has no table below it and
\* the following page holds a table that passes the test
FallbackCase(f) ==
    /\ NearBottomNoTable(f)
    /\ HeadingPageOf(f) + 1 < PageCount(f)
    /\ AcceptedIn(extract_tables(files[f].doc.pages[HeadingPageOf(f) + 2])) # {}
NextPageTable(f) ==
    FirstAccepted(extract_tables(files[f].doc.pages[HeadingPageOf(f) + 2]))
\* the table of f was found below the heading, on the heading's own page
OwnPageCase(f) ==
    /\ CallsOf(f, "extract") # <<>>
    /\ CallsOf(f, "extract")[1].ok

\* C2 as stated: a record whose table was recovered by the fallback differs
\* from every record whose table was found on the heading's own page.
C2_FallbackMarked ==
    \A f, g \in 1..Len(results) :
        (Recorded(f) /\ Recorded(g) /\ f \notin raised /\ g \notin raised
            /\ FallbackCase(f) /\ OwnPageCase(g))
        => <<results[f].df, results[f].section_found>>
              # <<results[g].df, results[g].section_found>>

\* C2, amended: with the heading at 700 or beyond on page k, no table below
\* it on page k and a valid table on page k+1, the pipeline returns the first
\* two rows of that table with section_found = True, and this pair is all the
\* record holds.
C2_FallbackReturnsNextPageTable ==
    /\ (Returned /\ FallbackCase(idx)) =>
          (loc.df = TwoRowsOf(NextPageTable(idx)) /\ loc.section_found)
    /\ \A f \in 1..Len(results) :
          (Recorded(f) /\ f \notin raised /\ FallbackCase(f)) =>
              results[f] = [path |-> files[f].path,
                            df |-> TwoRowsOf(NextPageTable(f)),
                            section_found |-> TRUE]

\* a record made by the fallback, the table having more than two rows
C2_Witness ==
    \E f \in 1..Len(results) :
        /\ Recorded(f) /\ f \notin raised /\ FallbackCase(f)
        /\ CallsOf(f, "find")[1].y_coord = 720
        /\ Len(NextPageTable(f)) > 2
        /\ results[f].df = TwoRowsOf(NextPageTable(f))

\* ---- C3 ----
AfterExtract == pc \in {"next", "record"} /\ calls # <<>> /\ LastCall.fn = "extract"

\* C3: the extractor returns a table iff some candidate of the region passes
\* the test; it returns the first such candidate in extraction order, cut to
\* its rows 0 and 1.
C3_FirstValidTwoRows ==
    AfterExtract =>
        LET cands == RegionOf(LastCall)
        IN  /\ (loc.df # NoneDf) <=> (AcceptedIn(cands) # {})
            /\ (AcceptedIn(cands) # {}) => loc.df = TwoRowsOf(FirstAccepted(cands))

\* two candidates, the first one rejected, the second one valid with more
\* than two rows: its first two rows are returned
C3_Witness ==
    /\ AfterExtract
    /\ Len(RegionOf(LastCall)) = 2
    /\ ~Accepted(RegionOf(LastCall)[1])
    /\ Accepted(RegionOf(LastCall)[2])
    /\ Len(RegionOf(LastCall)[2]) > 2
    /\ loc.df = TwoRowsOf(RegionOf(LastCall)[2])
    /\ Len(loc.df.rows) = 2

\* ---- C4 ----
\* the candidates before candidate i were all turned down
FirstLeft(cands, i, Test(_)) == \A j \in 1..(i - 1) : ~Test(cands[j])

\* C4 as stated: a candidate is accepted iff it has two rows or more, exactly
\* five cells in its first row, and each of these cells is a YYYY-YY string.
C4_AcceptedIffYearStrings ==
    AfterExtract =>
        LET cands == RegionOf(LastCall)
        IN  \A i \in 1..Len(cands) :
                FirstLeft(cands, i, StrictlyValid) =>
                    (StrictlyValid(cands[i]) <=> loc.df = TwoRowsOf(cands[i]))

\* C4, amended: a candidate is accepted iff it has two rows or more, exactly
\* five cells in its first row, and each of these cells is a string that
\* begins with YYYY-YY (a None cell, or a cell that does not begin so, makes
\* it invalid; what follows the year range is not looked at); a table that is
\* returned never has 4 or 6 cells in its first row.
C4_AcceptedIffBeginsWithYear ==
    AfterExtract =>
        LET cands == RegionOf(LastCall)
        IN  /\ \A i \in 1..Len(cands) :
                  FirstLeft(cands, i, Accepted) =>
                      (Accepted(cands[i]) <=> loc.df = TwoRowsOf(cands[i]))
            /\ \A i \in 1..Len(cands) :
                  (cands[i] # <<>> /\ Len(cands[i][1]) \in {4, 6}) =>
                      loc.df # TwoRowsOf(cands[i])
            /\ loc.df # NoneDf => Len(loc.df.rows[1]) = 5

\* a single candidate whose third header cell is "2020-2021": it is returned
C4_Witness ==
    /\ AfterExtract
    /\ Len(RegionOf(LastCall)) = 1
    /\ Accepted(RegionOf(LastCall)[1])
    /\ ~StrictlyValid(RegionOf(LastCall)[1])
    /\ Len(RegionOf(LastCall)[1][1][3]) = 9
    /\ loc.df = TwoRowsOf(RegionOf(LastCall)[1])

\* ---- C5 ----
\* the five columns of the i-th record
Block(i) == (5 * (i - 1) + 1)..(5 * i)
\* save_to_excel has written the i-th record
Written(i) == i \in 1..Len(results) /\ (pc = "done" \/ (pc = "save" /\ i < idx))
CellsOf(i, row) == {c \in sheet.cells : c.rec = i /\ c.row = row}
Cols(cs) == {c.col : c \in cs}

\* C5: records being taken in discovery order, everything save_to_excel
\* writes for the i-th record lies in columns 5(i-1)+1 .. 5i, the header and
\* data rows fill exactly these five columns whether or not a table was
\* extracted, and at the end the columns used are 1 .. 5 x (number of files).
C5_FiveColumnsPerRecord ==
    /\ \A c \in sheet.cells : c.col \in Block(c.rec)
    /\ \A m \in sheet.merges :
          m.start_column = 5 * (m.rec - 1) + 1 /\ m.end_column = 5 * m.rec
    /\ \A w \in sheet.widths : w.col \in Block(w.rec)
    /\ \A i \in 1..Len(results) :
          Written(i) =>
              /\ results[i].path = files[i].path
              /\ Cols(CellsOf(i, 1)) = {5 * (i - 1) + 1}
              /\ Cols(CellsOf(i, 2)) = Block(i)
              /\ Cols(CellsOf(i, 3)) = Block(i)
    /\ pc = "done" => Cols(sheet.cells) = 1..(5 * Len(files))

\* two files written, the first without a table and the second with one
C5_Witness ==
    /\ pc = "done"
    /\ Len(files) = 2
    /\ results[1].df = NoneDf
    /\ results[2].df # NoneDf
    /\ Cols(CellsOf(2, 3)) = 6..10

\* ---- C6 ----
\* the heading of file f was located
Located(f) == CallsOf(f, "find") # <<>> /\ CallsOf(f, "find")[1].ok

\* C6: for a written record without a table, the five data-row cells are
\* blank iff the heading was located and processing did not raise, and hold
\* 'x' iff the heading was not located or processing raised.
C6_BlankIffHeadingFound ==
    \A i \in 1..Len(results) :
        (Written(i) /\ results[i].df = NoneDf) =>
            /\ Cardinality(CellsOf(i, 3)) = 5
            /\ (\A c \in CellsOf(i, 3) : c.value = NoneCell)
                  <=> (Located(i) /\ i \notin raised)
            /\ (\A c \in CellsOf(i, 3) : c.value = <<"x">>)
                  <=> (~Located(i) \/ i \in raised)

\* two records without a table: one whose heading was located and whose
\* retry on the next page failed (blank), one whose heading was not located (x)
C6_Witness ==
    /\ pc = "done"
    /\ \E i, j \in 1..Len(results) :
          /\ results[i].df = NoneDf /\ results[j].df = NoneDf
          /\ Located(i) /\ i \notin raised /\ Len(CallsOf(i, "extract")) = 2
          /\ \A c \in CellsOf(i, 3) : c.value = NoneCell
          /\ ~Located(j) /\ j \notin raised
          /\ \A c \in CellsOf(j, 3) : c.value = <<"x">>

\* ---- C7 ----
\* the pattern matches the text of no page of file f
NoPageMatches(f) ==
    \A p \in 1..PageCount(f) : files[f].doc.pages[p].match = NoMatch
HasAcceptedTable(f) ==
    \E p \in 1..PageCount(f) :
        AcceptedIn(extract_tables(files[f].doc.pages[p])) # {}

\* C7: when the pattern matches no page of a document, find_text_and_crop
\* returns "not found", no table extraction is ever attempted on it, and
\* extract_enrollment_table returns (no table, heading not found), which is
\* what the record holds.
C7_NoMatchNoTable ==
    \A f \in 1..Len(files) :
        NoPageMatches(f) =>
            /\ CallsOf(f, "extract") = <<>>
            /\ \A i \in 1..Len(CallsOf(f, "find")) :
                  /\ ~CallsOf(f, "find")[i].ok
                  /\ CallsOf(f, "find")[i].page_num = NoneInt
            /\ (Returned /\ idx = f) => (loc.df = NoneDf /\ ~loc.section_found)
            /\ f \in 1..Len(results) =>
                  (results[f].df = NoneDf /\ ~results[f].section_found)

\* a document with a valid table and no heading, processed to the end
C7_Witness ==
    /\ pc = "done"
    /\ NoPageMatches(1)
    /\ HasAcceptedTable(1)
    /\ 1 \notin raised
    /\ results[1].df = NoneDf
    /\ ~results[1].section_found

\* ---- C8 ----
\* the candidates below the heading of f, on the heading's page
BelowHeading(f) ==
    LET fd == CallsOf(f, "find")[1]
        ts == files[f].doc.pages[fd.page_num + 1].tables
    IN  GridsAt(ts, {i \in 1..Len(ts) : ts[i].top >= fd.y_coord})

\* C8: per document the next page is read at most once, and only after the
\* heading was found at 700 or beyond on page k and the extraction below it
\* on page k returned no table; extraction only ever reads pages k and k+1;
\* when a valid table stands below the heading on page k its first two rows
\* are returned and page k+1 is never read.
C8_FallbackOnceAndOnlyWhenNeeded ==
    \A f \in 1..Len(files) :
        LET ex == CallsOf(f, "extract")
        IN  /\ Cardinality({i \in 1..Len(ex) : ex[i].next}) <= 1
            /\ ex # <<>> =>
                  /\ Located(f)
                  /\ ~ex[1].next
                  /\ ex[1].page_num = HeadingPageOf(f)
                  /\ \A i \in 1..Len(ex) :
                        ex[i].page_num \in {HeadingPageOf(f), HeadingPageOf(f) + 1}
            /\ \A i \in 1..Len(ex) :
                  ex[i].next =>
                      /\ i = 2
                      /\ ~ex[1].ok
                      /\ CallsOf(f, "find")[1].y_coord >= 700
                      /\ ex[i].page_num = HeadingPageOf(f) + 1
            /\ (Located(f) /\ AcceptedIn(BelowHeading(f)) # {}) =>
                  /\ Len(ex) <= 1
                  /\ (Returned /\ idx = f) =>
                        /\ Len(ex) = 1
                        /\ loc.df = TwoRowsOf(FirstAccepted(BelowHeading(f)))
                        /\ loc.section_found

\* the heading at 650 with a valid table below it: the table is returned and
\* only the heading's page was read
C8_Witness ==
    /\ Returned
    /\ Located(idx)
    /\ CallsOf(idx, "find")[1].y_coord = 650
    /\ HeadingPageOf(idx) + 1 < PageCount(idx)
    /\ AcceptedIn(BelowHeading(idx)) # {}
    /\ Len(CallsOf(idx, "extract")) = 1
    /\ loc.df = TwoRowsOf(FirstAccepted(BelowHeading(idx)))

\* ---- C9 ----
FindCalls == SelectSeq(calls, LAMBDA c : c.fn = "find")
NoTableRecord(f) == [path |-> files[f].path, df |-> NoneDf, section_found |-> FALSE]

Blanks == {" ", "\t", "\n"}
RECURSIVE TrimLeft(_)
TrimLeft(s) == IF s # <<>> /\ Head(s) \in Blanks THEN TrimLeft(Tail(s)) ELSE s
RECURSIVE TrimRight(_)
TrimRight(s) ==
    IF s # <<>> /\ s[Len(s)] \in Blanks THEN TrimRight(SubSeq(s, 1, Len(s) - 1)) ELSE s
\* the text of a cell without the blanks around it; a None cell has no text
Trimmed(cell) == IF cell = NoneCell THEN <<>> ELSE TrimRight(TrimLeft(cell))

LabelUpper == <<"N", "A", "M", "E", " ", "O", "F", " ", "T", "H", "E", " ",
                "C", "O", "L", "L", "E", "G", "E">>
LabelLower == <<"n", "a", "m", "e", " ", "o", "f", " ", "t", "h", "e", " ",
                "c", "o", "l", "l", "e", "g", "e">>
\* s is "Name of the College" in some mix of upper and lower case
IsHeaderLabel(s) ==
    Len(s) = Len(LabelUpper) /\ \A i \in 1..Len(s) : s[i] \in {LabelUpper[i], LabelLower[i]}

\* the pages the scan reaches: those before the first page without text
ScannedPages(doc) ==
    {p \in 1..Len(doc.pages) : \A q \in 1..p : doc.pages[q].textOk}
\* <<page, table, row>> of the cells that can be the name: a page with
\* "BASIC INFORMATION", a row of index >= 1 (the second row on), its cell at
\* index 1 neither empty nor the header label
RowsOfPage(doc, p) ==
    UNION {{<<p, t, r>> : r \in 2..Len(doc.pages[p].tables[t].grid)} :
              t \in 1..Len(doc.pages[p].tables)}
NameCandidates(doc) ==
    IF doc.openFails THEN {}
    ELSE {a \in UNION {RowsOfPage(doc, p) : p \in ScannedPages(doc)} :
             /\ doc.pages[a[1]].basic
             /\ Len(doc.pages[a[1]].tables[a[2]].grid[a[3]]) >= 2
             /\ Trimmed(doc.pages[a[1]].tables[a[2]].grid[a[3]][2]) # <<>>
             /\ ~IsHeaderLabel(Trimmed(doc.pages[a[1]].tables[a[2]].grid[a[3]][2]))}
Before(a, b) ==
    \/ a[1] < b[1]
    \/ a[1] = b[1] /\ a[2] < b[2]
    \/ a[1] = b[1] /\ a[2] = b[2] /\ a[3] <= b[3]
FirstCandidate(doc) ==
    CHOOSE a \in NameCandidates(doc) : \A b \in NameCandidates(doc) : Before(a, b)
\* the base names without extension of the paths of PathPool: a, b.c, c, e.
Stems == << <<"a">>, <<"b", ".", "c">>, <<"c">>, <<"e", ".">> >>
StemOf(path) == Stems[CHOOSE i \in 1..Len(PathPool) : PathPool[i] = path]
NameCellOf(i) == CHOOSE c \in CellsOf(i, 1) : TRUE

\* C10: the name written for a record is the trimmed text of the first cell
\* at index 1, in page, table and row order over the pages that contain
\* "BASIC INFORMATION", that stands in a row of index >= 1, is not empty and
\* is not the label "Name of the College" in any case; when there is no such
\* cell, or the scan raises, get_college_name finds nothing and the base
\* name of the file without its extension is written.
C10_CollegeNameOrFileName ==
    \A i \in 1..Len(results) :
        Written(i) =>
            LET doc == files[i].doc
                c   == FirstCandidate(doc)
            IN  /\ Cardinality(CellsOf(i, 1)) = 1
                /\ CallsOf(i, "name") # <<>>
                /\ CallsOf(i, "name")[1].ok <=> (NameCandidates(doc) # {})
                /\ NameCellOf(i).value =
                      IF NameCandidates(doc) # {}
                      THEN Trimmed(doc.pages[c[1]].tables[c[2]].grid[c[3]][2])
                      ELSE StemOf(files[i].path)

\* the label in the second row, in upper case and with blanks around it, a
\* name in the third: the name is written, trimmed
C10_Witness ==
    /\ pc = "done"
    /\ NameCandidates(files[1].doc) # {}
    /\ FirstCandidate(files[1].doc)[3] = 3
    /\ LET g == files[1].doc.pages[FirstCandidate(files[1].doc)[1]].tables[1].grid
       IN  /\ Len(g[2][2]) > Len(LabelUpper)
           /\ IsHeaderLabel(Trimmed(g[2][2]))
           /\ Len(Trimmed(g[3][2])) < Len(g[3][2])
           /\ NameCellOf(1).value = Trimmed(g[3][2])

\* ---- C11 ----
\* sub occurs in the text w
OccursIn(sub, w) ==
    \E i \in 0..(Len(w) - Len(sub)) : \A j \in 1..Len(sub) : w[i + j] = sub[j]
\* the pages (indices from 0) the search reads: those before the first page
\* without text
ReadPages(f) ==
    {p \in 0..(PageCount(f) - 1) : \A q \in 0..p : files[f].doc.pages[q + 1].textOk}
\* the pages whose text matches the pattern
MatchingPages(f) ==
    {p \in 0..(PageCount(f) - 1) : files[f].doc.pages[p + 1].match # NoMatch}
\* the words of page p that contain the section number captured on it
NumberWords(f, p) ==
    LET pg == files[f].doc.pages[p + 1]
    IN  {w \in 1..Len(pg.words) : OccursIn(pg.match, pg.words[w].text)}
\* the pages the heading can be located on: read, matching, and with a word
\* that contains the captured section number
LocatablePages(f) ==
    {p \in ReadPages(f) \cap MatchingPages(f) : NumberWords(f, p) # {}}
Least(S) == CHOOSE x \in S : \A y \in S : x <= y

\* C11 as stated: the page index the search returns is the smallest index of
\* a page whose text matches, also when no word of that page contains the
\* captured section number.
C11_SmallestMatchingPage ==
    \A i \in 1..Len(FindCalls) :
        FindCalls[i].ok =>
            FindCalls[i].page_num = Least(MatchingPages(FindCalls[i].file))

\* C11, amended: the search returns a page iff some page it reads matches
\* and has a word containing the captured section number; the page returned
\* is the smallest such page and the position is that of the first such word
\* on it; no page after it is considered, and a matching page before it none
\* of whose words contains the number is passed over.
C11_SmallestLocatablePage ==
    \A i \in 1..Len(FindCalls) :
        LET c == FindCalls[i]
            f == c.file
        IN  /\ c.ok <=> (~files[f].doc.openFails /\ LocatablePages(f) # {})
            /\ c.ok =>
                  /\ c.page_num = Least(LocatablePages(f))
                  /\ c.y_coord =
                        files[f].doc.pages[c.page_num + 1].words[
                            Least(NumberWords(f, c.page_num))].bottom
            /\ ~c.ok => (c.page_num = NoneInt /\ c.y_coord = NoneInt)

\* two pages match; no word of the first holds the number, the second is
\* returned
C11_Witness ==
    /\ FindCalls # <<>>
    /\ FindCalls[1].ok
    /\ MatchingPages(1) = {0, 1}
    /\ NumberWords(1, 0) = {}
    /\ FindCalls[1].page_num = 1

\* ---- C12 ----
\* the positions in the history of the calls that search or extract, and of
\* those that read the college name
SearchAt == {a \in 1..Len(calls) : calls[a].fn \in {"find", "extract"}}
NameAt == {a \in 1..Len(calls) : calls[a].fn = "name"}
NameCalls == SelectSeq(calls, LAMBDA c : c.fn = "name")

\* C12 as stated: no heading search or table extraction on document j+1
\* happens before the name extraction of document j has completed.
C12_NameBeforeNextDocument ==
    \A b \in SearchAt :
        calls[b].file > 1 =>
            \E a \in NameAt : a < b /\ calls[a].file = calls[b].file - 1

\* C12, amended: the heading search, the table extraction and the fallback
\* of a document are all done, each in one call that opens and closes the
\* document, and its record is stored, before any of them begins on the
\* next document; the college names are read afterwards, once every
\* document has its record: one name per record, in the order of the
\* records, none of them before the last search or extraction.
C12_SearchesThenNames ==
    /\ \A a, b \in SearchAt : a < b => calls[a].file <= calls[b].file
    /\ \A b \in SearchAt :
          \/ pc \in {"save", "done"}
          \/ calls[b].file < idx
          \/ (calls[b].file = idx /\ Len(results) = idx - 1)
    /\ \A f \in 1..Len(files) :
          \A a, b \in SearchAt :
              (calls[a].file = f /\ calls[b].file = f /\ a < b) =>
                  /\ calls[b].fn = "extract"
                  /\ calls[a].fn = "extract" => (~calls[a].next /\ calls[b].next)
    /\ \A a \in NameAt : \A b \in SearchAt : b < a
    /\ \A i \in 1..Len(NameCalls) : NameCalls[i].file = i
    /\ NameAt # {} =>
          /\ pc \in {"save", "done"}
          /\ Len(results) = Len(files)
          /\ \A f \in 1..Len(files) : \E b \in SearchAt : calls[b].file = f
    /\ pc = "save" => Len(NameCalls) = idx - 1
    /\ pc = "done" => Len(NameCalls) = Len(files)

\* two documents, the first one read three times (search, extraction,
\* fallback): the search of the second comes before the name of the first
C12_Witness ==
    /\ pc = "done"
    /\ Len(files) = 2
    /\ Len(CallsOf(1, "extract")) = 2
    /\ CallsOf(2, "extract") # <<>>
    /\ Len(NameCalls) = 2
    /\ \E a \in NameAt : \E b \in SearchAt :
          calls[a].file = 1 /\ calls[b].file = 2 /\ b < a

\* ---- C13 ----
\* interactive.py has stored the record of file f; it has written record i
InteractiveRecorded(f) ==
    /\ f \in 1..Len(interactive.results)
    /\ (interactive.pc \in {"save", "done"} \/ f < interactive.idx)
InteractiveWritten(i) ==
    /\ i \in 1..Len(interactive.results)
    /\ (interactive.pc = "done" \/ (interactive.pc = "save" /\ i < interactive.idx))
\* interactiveupdate.py read the page after the heading's page of file f
FallbackTriggered(f) ==
    \E i \in 1..Len(CallsOf(f, "extract")) : CallsOf(f, "extract")[i].next
\* both scripts have the record of f, the fallback did not trigger on f, and
\* the report of f failed to print in both runs or in neither
Comparable(f) ==
    /\ Recorded(f)
    /\ InteractiveRecorded(f)
    /\ ~FallbackTriggered(f)
    /\ (f \in raised) <=> (f \in interactive.raised)
\* what a sheet holds in a row of record i: <<column, value>>
RowValues(sh, i, row) ==
    {<<c.col, c.value>> : c \in {d \in sh.cells : d.rec = i /\ d.row = row}}
\* both scripts have returned from extract_enrollment_table on the same file
BothReturned ==
    /\ Returned
    /\ interactive.pc = "record"
    /\ interactive.idx = idx
    /\ ~FallbackTriggered(idx)
SameTables ==
    /\ BothReturned => loc.df = interactive.loc.df
    /\ \A f \in 1..Len(files) :
          Comparable(f) => results[f].df = interactive.results[f].df
PlaceholderYears ==
    << <<"2", "0", "2", "0", "-", "2", "1">>, <<"2", "0", "1", "9", "-", "2", "0">>,
       <<"2", "0", "1", "8", "-", "1", "9">>, <<"2", "0", "1", "7", "-", "1", "8">>,
       <<"2", "0", "1", "6", "-", "1", "7">> >>

\* C13 as stated: on a document where the fallback does not trigger both
\* scripts return the same table, and they write the same values for every
\* record, the placeholder year row of a failed record included, the marker
\* row of a failed record excepted.
C13_SameCellsButMarker ==
    /\ SameTables
    /\ \A f \in 1..Len(files) :
          (Comparable(f) /\ Written(f) /\ InteractiveWritten(f)) =>
              /\ RowValues(sheet, f, 1) = RowValues(interactive.sheet, f, 1)
              /\ RowValues(sheet, f, 2) = RowValues(interactive.sheet, f, 2)
              /\ results[f].df # NoneDf =>
                    RowValues(sheet, f, 3) = RowValues(interactive.sheet, f, 3)

\* C13, amended: on a document where the fallback does not trigger both
\* scripts return the same table, and they write the same name, the same
\* header and data rows of an extracted table, the same merged range and
\* column widths; for a failed record they differ in both placeholder rows:
\* the year row holds 2020-21 .. 2016-17 in interactiveupdate.py and five
\* times 'x-x' in interactive.py, the marker row is blank or 'x' in the
\* former and always 'x' in the latter.
C13_SameTablesOtherPlaceholders ==
    /\ SameTables
    /\ \A f \in 1..Len(files) :
          (Comparable(f) /\ Written(f) /\ InteractiveWritten(f)) =>
              LET col == 5 * (f - 1)
              IN  /\ RowValues(sheet, f, 1) = RowValues(interactive.sheet, f, 1)
                  /\ {m \in sheet.merges : m.rec = f}
                        = {m \in interactive.sheet.merges : m.rec = f}
                  /\ {w \in sheet.widths : w.rec = f}
                        = {w \in interactive.sheet.widths : w.rec = f}
                  /\ results[f].df # NoneDf =>
                        /\ RowValues(sheet, f, 2) = RowValues(interactive.sheet, f, 2)
                        /\ RowValues(sheet, f, 3) = RowValues(interactive.sheet, f, 3)
                  /\ results[f].df = NoneDf =>
                        /\ RowValues(sheet, f, 2)
                              = {<<col + i, PlaceholderYears[i]>> : i \in 1..5}
                        /\ RowValues(interactive.sheet, f, 2)
                              = {<<col + i, <<"x", "-", "x">>>> : i \in 1..5}
                        /\ RowValues(interactive.sheet, f, 3)
                              = {<<col + i, <<"x">>>> : i \in 1..5}
                        /\ \/ RowValues(sheet, f, 3) = {<<col + i, <<"x">>>> : i \in 1..5}
                           \/ RowValues(sheet, f, 3) = {<<col + i, NoneCell>> : i \in 1..5}

\* both workbooks done: a record with the table below the heading, another
\* table standing above it, and a record whose heading was found above 700
\* and whose table was not
C13_Witness ==
    /\ pc = "done"
    /\ interactive.pc = "done"
    /\ \E f, g \in 1..Len(files) :
          /\ Comparable(f) /\ Comparable(g)
          /\ f \notin raised /\ g \notin raised
          /\ results[f].df # NoneDf
          /\ Len(extract_tables(files[f].doc.pages[HeadingPageOf(f) + 1])) = 2
          /\ interactive.results[f].df = results[f].df
          /\ Located(g)
          /\ results[g].df = NoneDf
          /\ interactive.results[g].df = NoneDf
          /\ RowValues(sheet, g, 3) # RowValues(interactive.sheet, g, 3)

====
